---------------------------- MODULE Spec2Model ----------------------------
(***************************************************************************)
(* Model of the NextEnergy price client (api.py, NextEnergyApi) and of its *)
(* refresh coordinator (coordinator.py, NextEnergyCoordinator).            *)
(*                                                                         *)
(* Optional Python values (None or a value) are sequences of length 0 or   *)
(* 1: <<>> is None, <<v>> is the value v.  A cookie value is the sequence  *)
(* of its ';'-separated fields after URL-decoding, each field a record     *)
(* [k, v] standing for the text "k=v"; v = 0 is the empty text.  The empty *)
(* sequence of fields is the empty string.  Tokens are natural numbers;    *)
(* 0 is the empty header value.                                            *)
(***************************************************************************)
EXTENDS Integers, Sequences, FiniteSets

VARIABLES
    client,        \* NextEnergyApi fields: _session_cookie, _csrf_token, _module_version,
                   \* _api_version_prices, _api_version_costs
    session,       \* NextEnergyApi._session: "none", "open" or "closed"
    open_sessions, \* history: how many sessions created by the client are open
    jar,           \* the cookie jar of the client's aiohttp session: the nr2Users_Customers cookie, if any
    call,          \* the client operation in flight or last finished
    auth,          \* history: the last authenticate() run of the current client operation
    post,          \* history: the last price request posted by the current client operation
    res,           \* result of the current client operation
    cpc,           \* position of _async_update_data: "idle", "today", "tomorrow"
    today_prices,  \* local of _async_update_data
    data,          \* coordinator.data, the published snapshot
    last,          \* how the last refresh ended: "ok", "UpdateFailed" or the exception that escaped
    cycle,         \* number of refresh cycles started
    cost_level,    \* coordinator.cost_level
    clock,         \* the day of the last datetime.now() reading
    presp,         \* a response body handed to _parse_price_response on its own
    pquote,        \* the quote parsed from presp, if parsed yet
    phour,         \* the hour datetime.now() gave while presp was parsed, if parsed yet
    recovered,     \* the upstream: None while any request may fail; once it answers
                   \* every request successfully, the number of cycles started before
                   \* and how the last of them ended
    flow,          \* what the last async_step_user with user input returned: "none",
                   \* "create_entry", or the error of the form shown again
    entry          \* the config entry: "none" (not created), "new", "first_refresh",
                   \* "loaded" (registered in hass.data), "unloaded", or what setup raised

vars == <<client, session, open_sessions, jar, call, auth, post, res, cpc, today_prices, data, last,
          cycle, cost_level, clock, presp, pquote, phour, recovered, flow, entry>>

-----------------------------------------------------------------------------
(* Bounds of the model *)

\* Refresh cycles explored.
MaxCycles == 2

\* Days the wall clock may advance.
MaxDay == 1

\* Longest PricingList parsed on its own.
MaxItems == 3

\* datetime.now(): the wall clock never runs backwards; the day read is the
\* day of the previous reading or a later one.
Now == clock..MaxDay

\* Nesting depth of get_hourly_prices at which the interpreter raises
\* RecursionError (sys.getrecursionlimit(), scaled down).
RecursionLimit == 1

-----------------------------------------------------------------------------
(* Program constants *)

DEFAULT_MODULE_VERSION == 0

DEFAULT_API_VERSION_PRICES == "YfqvMpHd6TWpPqiZ61s6Cw"

DEFAULT_API_VERSION_COSTS == "O_moHZeIoEf9C2VeIRpb6Q"

\* The tier of the config entry.  The code only passes the tier on, to the
\* request body and to the snapshot, and never branches on it, so one tier
\* stands for both: the one that is not the default of get_hourly_prices.
COST_LEVEL_MARKET == "Market"

-----------------------------------------------------------------------------
(* Values *)

None == <<>>

Some(v) == <<v>>

\* Python truthiness of an optional string: None and "" are falsy.
Truthy(opt) == opt # None /\ opt[1] # <<>>

Field(k, v) == [k |-> k, v |-> v]

\* Values the server may give the session cookie: a value without crf=, a
\* value with crf=1, and a value whose first crf= is empty and whose second
\* is crf=2.
CookieValues ==
    { <<Field("uid", 1)>>,
      <<Field("uid", 1), Field("crf", 1)>>,
      <<Field("crf", 0), Field("crf", 2)>> }

\* Version tokens the version-info endpoint may return.
ServerVersions == {1}

\* Prices on the wire are counted in units of 0.00001; a quote's prices,
\* rounded to 4 decimals, in units of 0.0001.
PriceScale == 10

\* PricingList payloads of a price response.
PricingLists ==
    { <<>>,
      <<[Hour |-> 1, Price |-> 30], [Hour |-> 0, Price |-> 12]>> }

\* The GasPrice of a price response.
GasPrices == {8124}

\* Hours and prices of the responses parsed on their own: hours inside and
\* outside the off-peak window 0-5, prices negative and positive, on and off
\* a rounding tie.
ParseHours == {0, 1, 5, 6}

ParsePrices == {-25, 14, 30}

ParseGasPrices == {8125}

\* The keys of the "data" object of a response body.  A response names the
\* keys it has; a field whose key is absent is not read.
DataKeys == {"PricingList", "GasPrice"}

\* data.get(key, default).
DataGet(response, key, default) ==
    IF key \in response.keys THEN response[key] ELSE default

\* The requested dates and the wall-clock hours of the parses made on their
\* own: today and tomorrow; an hour the responses may populate and one they
\* never do.
ParseDates == {0, 1}

ParseNowHours == {1, 7}

RECURSIVE SeqsUpTo(_, _)
\* The sequences over S of length at most n.
SeqsUpTo(S, n) ==
    IF n = 0 THEN { <<>> }
    ELSE LET shorter == SeqsUpTo(S, n - 1)
         IN  shorter \cup { Append(q, x) : q \in shorter, x \in S }

\* Response bodies with a PricingList, and bodies that lack the PricingList
\* key or every key.
ParseInputs ==
    { [kind |-> "ok", PricingList |-> pl, GasPrice |-> g, keys |-> DataKeys, serial |-> 0] :
          pl \in SeqsUpTo([Hour : ParseHours, Price : ParsePrices], MaxItems),
          g \in ParseGasPrices }
    \cup
    { [kind |-> "ok", PricingList |-> <<>>, GasPrice |-> g, keys |-> {"GasPrice"}, serial |-> 0] :
          g \in ParseGasPrices }
    \cup
    { [kind |-> "ok", PricingList |-> <<>>, GasPrice |-> 0, keys |-> {}, serial |-> 0] }

\* The response of the specification's parsing example: hour 0 at 0.2, then
\* hour 1 at 0.15, and a GasPrice of 1.234567, cut to the 5 decimals of the
\* wire unit.
ExampleResponse ==
    [kind |-> "ok",
     PricingList |-> <<[Hour |-> 0, Price |-> 20000], [Hour |-> 1, Price |-> 15000]>>,
     GasPrice |-> 123456, keys |-> DataKeys, serial |-> 0]

\* round() on a float that lies halfway between two 4-decimal values goes to
\* either neighbour, as the float's binary value decides: the direction the
\* roundings of one _parse_price_response call take on a tie.
Ties == {"down", "up"}

\* Exception kinds.  "ConnError" is NextEnergyApiError("Connection error: ...").
\* "TimeoutError" is asyncio.TimeoutError, raised by the session's total
\* timeout; "ClientError" is aiohttp.ClientError and its subclasses.
ApiErrorKinds == {"AuthError", "ApiError", "ConnError"}

\* except NextEnergyApiError: NextEnergyAuthError is a subclass.
IsApiError(kind) == kind \in ApiErrorKinds

\* except aiohttp.ClientError: asyncio.TimeoutError is not one.
CaughtAsClientError(exc) == exc = "ClientError"

-----------------------------------------------------------------------------
(* The client *)

\* NextEnergyApi(username, password), lines 37-46: no tokens, the compiled-in
\* versions.  Its _session is None.
NewClient ==
    [session_cookie |-> None, csrf_token |-> None,
     module_version |-> DEFAULT_MODULE_VERSION,
     api_version_prices |-> DEFAULT_API_VERSION_PRICES,
     api_version_costs |-> DEFAULT_API_VERSION_COSTS]

-----------------------------------------------------------------------------
(* The network session *)

\* Faulty variant of Closed: close() returns without closing.
ClosedNot(s) == s

\* close(), lines 54-57: an open session is closed; nothing else changes.
Closed(s) == IF s = "open" THEN "closed" ELSE s

\* Faulty variant of CreatesSession: every call creates a session.
CreatesSessionAlways(s) == TRUE

\* Line 50: if self._session is None or self._session.closed.
CreatesSession(s) == s \in {"none", "closed"}

\* _get_session, lines 48-52: a session is created when there is none or
\* the one there is closed.
GetSession(s) == IF CreatesSession(s) THEN "open" ELSE s

\* The open sessions of a client that had n of them and whose _session is s,
\* after _get_session and after close().
OpenAfterGet(n, s) == IF CreatesSession(s) THEN n + 1 ELSE n

OpenAfterClose(n, s) == IF s = "open" THEN n - 1 ELSE n

\* The session cookie in the jar of the session _get_session returns: a
\* session just created has an empty jar.
SessionJar == IF session = "open" THEN jar ELSE None

-----------------------------------------------------------------------------
(* authenticate() *)

\* re.search(r'crf=([^;]+)', unquote(cookie.value)): the value of the first
\* crf field that is followed by at least one character, or None.
CsrfSearch(value) ==
    LET hits == { i \in 1..Len(value) : value[i].k = "crf" /\ value[i].v # 0 }
    IN  IF hits = {} THEN None
        ELSE Some(value[CHOOSE i \in hits : \A m \in hits : i <= m].v)

\* What the exception raised by a request inside the try block becomes.
TransportOutcome(exc) == IF CaughtAsClientError(exc) THEN "ConnError" ELSE exc

TransportFailures == {"ClientError", "TimeoutError"}

\* What the server and the network do during one authenticate(): the login
\* page GET, the version-info GET, the login POST and the session cookie the
\* jar holds once the login response has been processed.  Later requests are
\* "-" when an earlier one ends the call.
AuthResponses(j) ==
    LET Vers == [ver : {"no_token", "status"}, vtoken : {DEFAULT_MODULE_VERSION}]
                  \cup [ver : {"token"}, vtoken : ServerVersions]
    IN  { [page |-> p, ver |-> "-", vtoken |-> DEFAULT_MODULE_VERSION, login |-> "-", jar |-> j] :
              p \in {"status"} \cup TransportFailures }
        \cup
        { [page |-> "ok", ver |-> v, vtoken |-> DEFAULT_MODULE_VERSION, login |-> "-", jar |-> j] :
              v \in TransportFailures }
        \cup
        { [page |-> "ok", ver |-> v.ver, vtoken |-> v.vtoken, login |-> l, jar |-> j] :
              v \in Vers, l \in {"status", "exception"} \cup TransportFailures }
        \cup
        { [page |-> "ok", ver |-> v.ver, vtoken |-> v.vtoken, login |-> "ok", jar |-> k] :
              v \in Vers, k \in {None} \cup { Some(cv) : cv \in CookieValues } }

\* Lines 69-73: the module version after the version-info request.
VersionAfter(c, r) ==
    IF r.ver = "token" THEN r.vtoken
    ELSE IF r.ver = "no_token" THEN DEFAULT_MODULE_VERSION
    ELSE c.module_version

\* Lines 108-118: the cookie-jar scan.  The CSRF token is assigned only when
\* the pattern matches.
ExtractCookie(c, found) ==
    IF found = None THEN c
    ELSE [c EXCEPT !.session_cookie = found,
                   !.csrf_token = IF CsrfSearch(found[1]) # None
                                  THEN CsrfSearch(found[1]) ELSE @]

\* Faulty variant of NoSessionCookie: the CSRF token is tested instead.
NoSessionCookieByCsrf(c) == c.csrf_token = None

\* Line 120: if not self._session_cookie.
NoSessionCookie(c) == ~Truthy(c.session_cookie)

\* Lines 69-71: how the version-info request went: "-" if it was not sent,
\* "failed" if it raised or was answered with a status other than 200.
VersionInfoRequest(r) ==
    IF r.page # "ok" THEN "-"
    ELSE IF r.ver \in {"token", "no_token"} THEN "ok" ELSE "failed"

\* Lines 78-79: the moduleVersion the login request carries.
LoginVersion(c) == c.module_version

\* authenticate() on client state c with cookie jar j, given the responses r.
\* Yields the client state and jar afterwards, the outcome ("ok" or the
\* exception kind raised), what caused it, whether the login request
\* succeeded, how the version-info request went and the module version the
\* login request carried, if one was sent.
AuthenticateOp(c, j, r) ==
    LET c1 == [c EXCEPT !.module_version = VersionAfter(c, r)]
        c2 == ExtractCookie(c1, r.jar)
        sent == r.page = "ok" /\ r.ver \notin TransportFailures
        Out(cl, jr, outcome, cause, lok) ==
            [client |-> cl, jar |-> jr, outcome |-> outcome, cause |-> cause,
             login_ok |-> lok, ver |-> VersionInfoRequest(r),
             login_version |-> IF sent THEN Some(LoginVersion(c1)) ELSE None]
    IN  IF r.page \in TransportFailures
            THEN Out(c, j, TransportOutcome(r.page), "transport", FALSE)
        ELSE IF r.page = "status"
            THEN Out(c, j, "AuthError", "login_page", FALSE)
        ELSE IF r.ver \in TransportFailures
            THEN Out(c, j, TransportOutcome(r.ver), "transport", FALSE)
        ELSE IF r.login \in TransportFailures
            THEN Out(c1, j, TransportOutcome(r.login), "transport", FALSE)
        ELSE IF r.login \in {"status", "exception"}
            THEN Out(c1, j, "AuthError", "login_rejected", FALSE)
        ELSE IF NoSessionCookie(c2)
            THEN Out(c2, r.jar, "AuthError", "no_session_cookie", TRUE)
        ELSE Out(c2, r.jar, "ok", "ok", TRUE)

\* The upstream answers every request successfully.
Healthy == recovered # None

\* All three requests of authenticate() are answered with success: status 200
\* throughout, no exception in the login result, a session cookie set.
AuthSucceeds(r) ==
    r.page = "ok" /\ r.ver \in {"token", "no_token"} /\ r.login = "ok" /\ r.jar # None

\* The outcomes authenticate() can have for a client in state c with a session
\* whose jar is j, over every response the upstream may give.
AuthenticateOutcomes(c, j) ==
    { AuthenticateOp(c, j, r) : r \in { x \in AuthResponses(j) : Healthy => AuthSucceeds(x) } }

\* The record of one authenticate() run kept in auth: its position among
\* the events of the client operation, how it was reached, whether the client
\* held a session token and a CSRF token when it started, and how it ended.
AuthEvent(n, via, c, a) ==
    [at |-> n, via |-> via,
     held_session |-> Truthy(c.session_cookie), held_csrf |-> c.csrf_token # None,
     outcome |-> a.outcome, cause |-> a.cause, login_ok |-> a.login_ok,
     ver |-> a.ver, login_version |-> a.login_version]

NoAuth ==
    [at |-> 0, via |-> "-", held_session |-> FALSE, held_csrf |-> FALSE,
     outcome |-> "-", cause |-> "-", login_ok |-> FALSE,
     ver |-> "-", login_version |-> None]

-----------------------------------------------------------------------------
(* get_hourly_prices() *)

\* hourly_prices[hour] = price on a dict kept as the sequence of its items in
\* insertion order: an existing key keeps its place, a new key goes last.
DictSet(d, hour, price) ==
    IF \E i \in 1..Len(d) : d[i].hour = hour
    THEN [i \in 1..Len(d) |-> IF d[i].hour = hour THEN [hour |-> hour, price |-> price] ELSE d[i]]
    ELSE Append(d, [hour |-> hour, price |-> price])

\* round(num / den, 4) in units of 0.0001, den > 0: the nearest integer, a
\* tie going the way dir says.
Round(num, den, dir) ==
    LET q == num \div den
        r == num % den
    IN  IF 2 * r < den THEN q
        ELSE IF 2 * r > den THEN q + 1
        ELSE IF dir = "up" THEN q + 1 ELSE q

RECURSIVE HourlyPrices(_, _)
\* Lines 194-200: the dict built from the PricingList, in response order,
\* each price rounded to 4 decimals.
HourlyPrices(pricing_list, dir) ==
    IF pricing_list = <<>> THEN <<>>
    ELSE LET n == Len(pricing_list)
             item == pricing_list[n]
         IN  DictSet(HourlyPrices(SubSeq(pricing_list, 1, n - 1), dir),
                     item.Hour, Round(item.Price, PriceScale, dir))

\* hourly_prices.get(hour, 0).
DictGet(d, hour) ==
    IF \E i \in 1..Len(d) : d[i].hour = hour
    THEN d[CHOOSE i \in 1..Len(d) : d[i].hour = hour].price
    ELSE 0

RECURSIVE Sum(_)
\* sum() of a list of prices.
Sum(prices) ==
    IF prices = <<>> THEN 0 ELSE prices[1] + Sum(Tail(prices))

\* Faulty variant of OffPeakPrices: only the populated hours are listed.
OffPeakPricesPopulated(d) ==
    LET hours == { h \in 0..5 : \E i \in 1..Len(d) : d[i].hour = h }
        Rank(h) == Cardinality({ k \in hours : k <= h })
    IN  [n \in 1..Cardinality(hours) |-> DictGet(d, CHOOSE h \in hours : Rank(h) = n)]

\* Line 210: [hourly_prices.get(h, 0) for h in range(0, 6)].
OffPeakPrices(d) == [n \in 1..6 |-> DictGet(d, n - 1)]

\* Line 214: list(hourly_prices.values()).
AllPrices(d) == [i \in 1..Len(d) |-> d[i].price]

\* min() and max() of a non-empty list.
Min(prices) ==
    CHOOSE m \in { prices[i] : i \in 1..Len(prices) } :
        \A i \in 1..Len(prices) : m <= prices[i]

Max(prices) ==
    CHOOSE m \in { prices[i] : i \in 1..Len(prices) } :
        \A i \in 1..Len(prices) : m >= prices[i]

\* Faulty variant of FirstHourAt: the numerically smallest hour at the price.
FirstHourAtSmallest(d, price) ==
    LET hours == { d[i].hour : i \in { k \in 1..Len(d) : d[k].price = price } }
    IN  CHOOSE h \in hours : \A g \in hours : h <= g

\* Lines 217-218: [h for h, p in hourly_prices.items() if p == price][0].
FirstHourAt(d, price) ==
    d[CHOOSE i \in 1..Len(d) :
          d[i].price = price /\ \A j \in 1..(i - 1) : d[j].price # price].hour

\* Faulty variant of AveragePrice: the mean is taken over the 24 hours of a
\* day.
AveragePriceOfDay(all_prices, dir) == Round(Sum(all_prices), 24, dir)

\* Line 227: round(sum(all_prices) / len(all_prices), 4) if all_prices else 0.
AveragePrice(all_prices, dir) ==
    IF all_prices = <<>> THEN 0 ELSE Round(Sum(all_prices), Len(all_prices), dir)

\* Lines 210-211 and 226: round(sum(off_peak_prices) / len(off_peak_prices), 4)
\* if off_peak_prices else 0.
AverageOffPeak(off_peak_prices, dir) ==
    IF off_peak_prices = <<>> THEN 0
    ELSE Round(Sum(off_peak_prices), Len(off_peak_prices), dir)

\* Faulty variant of PricingListOf: a body without the key is read as a list
\* of one empty item.
PricingListOfDefaultItem(response) ==
    DataGet(response, "PricingList", <<[Hour |-> 0, Price |-> 0]>>)

\* Line 195: data.get("PricingList", []).
PricingListOf(response) == DataGet(response, "PricingList", <<>>)

\* Faulty variant of CurrentPrice: the entry of the hour before is read.
CurrentPriceOfPreviousHour(hourly_prices, current_hour) ==
    DictGet(hourly_prices, current_hour - 1)

\* Lines 204 and 224: round(hourly_prices.get(current_hour, 0), 4); the entry
\* is already rounded to 4 decimals.
CurrentPrice(hourly_prices, current_hour) == DictGet(hourly_prices, current_hour)

\* _parse_price_response, lines 189-232, without current_hour and
\* current_price, which are read off the wall clock.  Values that are already
\* rounded to 4 decimals are left as they are by the final round().  fetched
\* is a history field: the refresh cycle in which the response was received.
ParsePriceResponse(response, date, ties) ==
    LET hourly_prices == HourlyPrices(PricingListOf(response), ties)
        off_peak_prices == OffPeakPrices(hourly_prices)
        all_prices == AllPrices(hourly_prices)
        some == all_prices # <<>>
        min_price == IF some THEN Min(all_prices) ELSE 0
        max_price == IF some THEN Max(all_prices) ELSE 0
    IN  [date |-> date,
         hourly_prices |-> hourly_prices,
         gas_price |-> Round(DataGet(response, "GasPrice", 0), PriceScale, ties),
         average_off_peak |-> AverageOffPeak(off_peak_prices, ties),
         average_price |-> AveragePrice(all_prices, ties),
         min_price |-> min_price,
         max_price |-> max_price,
         min_price_hour |-> IF some THEN FirstHourAt(hourly_prices, min_price) ELSE 0,
         max_price_hour |-> IF some THEN FirstHourAt(hourly_prices, max_price) ELSE 0,
         fetched |-> response.serial]

\* The quotes _parse_price_response may return for one response, over the
\* ways its roundings may break a tie.
Quotes(response, date) == { ParsePriceResponse(response, date, ties) : ties \in Ties }

\* _parse_price_response, lines 189-232, whole: current_hour is the hour
\* datetime.now() gives at line 203.
ParsePriceResponseAt(response, date, hour, ties) ==
    LET q == ParsePriceResponse(response, date, ties)
    IN  [f \in DOMAIN q \cup {"current_hour", "current_price"} |->
            IF f = "current_hour" THEN hour
            ELSE IF f = "current_price" THEN CurrentPrice(q.hourly_prices, hour)
            ELSE q[f]]

QuotesAt(response, date, hour) ==
    { ParsePriceResponseAt(response, date, hour, ties) : ties \in Ties }

\* What the server and the network do with one price request.
PriceResponses ==
    { [kind |-> k, PricingList |-> <<>>, GasPrice |-> 0, keys |-> {}, serial |-> cycle] :
          k \in {"status", "exception", "invalid_login"} \cup TransportFailures }
    \cup
    { [kind |-> "ok", PricingList |-> pl, GasPrice |-> g, keys |-> DataKeys, serial |-> cycle] :
          pl \in PricingLists, g \in GasPrices }

\* The price request is answered with status 200 and prices.
PriceSucceeds(rp) == rp.kind = "ok"

\* The answers the upstream may give to one price request.
PriceAnswers == { rp \in PriceResponses : Healthy => PriceSucceeds(rp) }

\* Faulty variant of SessionExpired: any server exception is taken for an
\* expired session.
SessionExpiredAnyException(rp) == rp.kind \in {"exception", "invalid_login"}

\* Lines 175-177: the answer carries an exception whose message contains
\* "Invalid Login".
SessionExpired(rp) == rp.kind = "invalid_login"

\* Lines 168-169 and 175-184: a status other than 200, or an exception that
\* is not an expired session.
Rejected(rp) == rp.kind \in {"status", "exception"} /\ ~SessionExpired(rp)

\* Faulty variant of ForgetSession: the expired token is kept.
ForgetSessionNot(c) == c

\* Line 179: self._session_cookie = None.
ForgetSession(c) == [c EXCEPT !.session_cookie = None]

\* Faulty variant of NeedsAuth: the lazy authentication is skipped.
NeedsAuthNever(c) == FALSE

\* Line 131: if not self._session_cookie.
NeedsAuth(c) == ~Truthy(c.session_cookie)

\* Line 145: "X-CSRFToken": self._csrf_token or "".
CsrfHeader(c) == IF c.csrf_token = None THEN 0 ELSE c.csrf_token[1]

\* Position of the next event of the current client operation.
NextAt == call.n_auth + call.n_post + 1

\* Faulty variant of VersionInfo: the compiled-in module version is sent.
VersionInfoCompiledIn(c) ==
    [moduleVersion |-> DEFAULT_MODULE_VERSION, apiVersion |-> c.api_version_prices]

\* Lines 149-152: the versionInfo of the price request body.
VersionInfo(c) ==
    [moduleVersion |-> c.module_version, apiVersion |-> c.api_version_prices]

\* The record of one price request kept in post: lines 141-169.
PostEvent(c, rp) ==
    [at |-> NextAt, token_held |-> Truthy(c.session_cookie), csrf_header |-> CsrfHeader(c),
     module_version |-> VersionInfo(c).moduleVersion,
     api_version |-> VersionInfo(c).apiVersion, date |-> call.date,
     cost_level |-> call.cost_level, resp |-> rp.kind]

NoPost ==
    [at |-> 0, token_held |-> FALSE, csrf_header |-> 0,
     module_version |-> DEFAULT_MODULE_VERSION,
     api_version |-> DEFAULT_API_VERSION_PRICES, date |-> 0, cost_level |-> "-",
     resp |-> "-"]

NoResult == [kind |-> "none", quote |-> None]

\* No client operation yet.  phase is a history field: which fetch of the
\* refresh cycle the call is ("today", "tomorrow"; "-" for any other caller).
NoCall ==
    [op |-> "none", pc |-> "idle", phase |-> "-", date |-> 0, cost_level |-> "-",
     depth |-> 0, held_on_entry |-> FALSE, n_auth |-> 0, n_reauth |-> 0, n_post |-> 0]

Running == call.pc \in {"entry", "post", "reauth"}

\* Lines 131-132 of one invocation of get_hourly_prices (the outermost one or
\* a recursive one): authenticate first if no session token is held.
GhpEntry ==
    /\ call.pc = "entry"
    /\ \/ /\ NeedsAuth(client)
          /\ \E a \in AuthenticateOutcomes(client, SessionJar) :
                    /\ client' = a.client
                    /\ session' = GetSession(session)
                    /\ open_sessions' = OpenAfterGet(open_sessions, session)
                    /\ jar' = a.jar
                    /\ auth' = AuthEvent(NextAt, "entry", client, a)
                    /\ \/ /\ a.outcome # "ok"
                          /\ res' = [kind |-> a.outcome, quote |-> None]
                          /\ call' = [call EXCEPT !.pc = "done", !.n_auth = @ + 1]
                       \/ /\ a.outcome = "ok"
                          /\ res' = res
                          /\ call' = [call EXCEPT !.pc = "post", !.n_auth = @ + 1]
       \/ /\ ~NeedsAuth(client)
          /\ call' = [call EXCEPT !.pc = "post"]
          /\ UNCHANGED <<client, session, open_sessions, jar, auth, res>>
    /\ UNCHANGED <<post, cpc, today_prices, data, last, cycle, cost_level, clock, entry>>
    /\ UNCHANGED <<presp, pquote, phour, recovered, flow>>

\* Lines 134-187: post the price request and act on the answer.  On
\* "Invalid Login" the session cookie is cleared (line 179).
GhpPost ==
    /\ call.pc = "post"
    /\ \E rp \in PriceAnswers :
          /\ post' = PostEvent(client, rp)
          /\ \/ /\ rp.kind = "ok"
                /\ \E quote \in Quotes(rp, call.date) :
                      res' = [kind |-> "ok", quote |-> Some(quote)]
                /\ call' = [call EXCEPT !.pc = "done", !.n_post = @ + 1]
                /\ client' = client
             \/ /\ Rejected(rp)
                /\ res' = [kind |-> "ApiError", quote |-> None]
                /\ call' = [call EXCEPT !.pc = "done", !.n_post = @ + 1]
                /\ client' = client
             \/ /\ rp.kind \in TransportFailures
                /\ res' = [kind |-> TransportOutcome(rp.kind), quote |-> None]
                /\ call' = [call EXCEPT !.pc = "done", !.n_post = @ + 1]
                /\ client' = client
             \/ /\ SessionExpired(rp)
                /\ res' = res
                /\ call' = [call EXCEPT !.pc = "reauth", !.n_post = @ + 1]
                /\ client' = ForgetSession(client)
    /\ session' = GetSession(session)
    /\ open_sessions' = OpenAfterGet(open_sessions, session)
    /\ jar' = SessionJar
    /\ UNCHANGED <<auth, cpc, today_prices, data, last, cycle, cost_level, clock, entry>>
    /\ UNCHANGED <<presp, pquote, phour, recovered, flow>>

\* Lines 180-181: await self.authenticate(), then
\* return await self.get_hourly_prices(date, cost_level).
GhpReauth ==
    /\ call.pc = "reauth"
    /\ \E a \in AuthenticateOutcomes(client, SessionJar) :
              /\ client' = a.client
              /\ session' = GetSession(session)
              /\ open_sessions' = OpenAfterGet(open_sessions, session)
              /\ jar' = a.jar
              /\ auth' = AuthEvent(NextAt, "retry", client, a)
              /\ \/ /\ a.outcome # "ok"
                    /\ res' = [kind |-> a.outcome, quote |-> None]
                    /\ call' = [call EXCEPT !.pc = "done", !.n_auth = @ + 1, !.n_reauth = @ + 1]
                 \/ /\ a.outcome = "ok"
                    /\ call.depth < RecursionLimit
                    /\ res' = res
                    /\ call' = [call EXCEPT !.pc = "entry", !.depth = @ + 1,
                                            !.n_auth = @ + 1, !.n_reauth = @ + 1]
                 \/ /\ a.outcome = "ok"
                    /\ call.depth >= RecursionLimit
                    /\ res' = [kind |-> "RecursionError", quote |-> None]
                    /\ call' = [call EXCEPT !.pc = "done", !.n_auth = @ + 1, !.n_reauth = @ + 1]
    /\ UNCHANGED <<post, cpc, today_prices, data, last, cycle, cost_level, clock, entry>>
    /\ UNCHANGED <<presp, pquote, phour, recovered, flow>>

\* A caller starts get_hourly_prices(date, cost_level).
BeginCall(phase, date, level) ==
    /\ call' = [op |-> "get_hourly_prices", pc |-> "entry", phase |-> phase, date |-> date,
                cost_level |-> level, depth |-> 0,
                held_on_entry |-> Truthy(client.session_cookie),
                n_auth |-> 0, n_reauth |-> 0, n_post |-> 0]
    /\ auth' = NoAuth
    /\ post' = NoPost
    /\ res' = NoResult

\* A caller awaits api.authenticate() on a client in state c whose _session
\* is s: the client, the jar and the outcome afterwards.
AuthenticateOn(c, s) ==
    \E a \in AuthenticateOutcomes(c, IF s = "open" THEN jar ELSE None) :
            /\ client' = a.client
            /\ jar' = a.jar
            /\ auth' = AuthEvent(1, "direct", c, a)
            /\ post' = NoPost
            /\ res' = [kind |-> a.outcome, quote |-> None]
            /\ call' = [NoCall EXCEPT !.op = "authenticate", !.pc = "done",
                                      !.held_on_entry = Truthy(c.session_cookie),
                                      !.n_auth = 1]

\* The same with the session authenticate() leaves, the one _get_session
\* returned, for a client that had n open sessions.
DoAuthenticateOn(c, s, n) ==
    /\ AuthenticateOn(c, s)
    /\ session' = GetSession(s)
    /\ open_sessions' = OpenAfterGet(n, s)

\* await api.authenticate() by a caller of the client.
DoAuthenticate == DoAuthenticateOn(client, session, open_sessions)

\* Any caller awaits api.authenticate() on the client as it is.
Authenticate ==
    /\ ~Running
    /\ DoAuthenticate
    /\ UNCHANGED <<cpc, today_prices, data, last, cycle, cost_level, clock, entry>>
    /\ UNCHANGED <<presp, pquote, phour, recovered, flow>>

\* Any caller awaits api.get_hourly_prices() on the client as it is.
CallGetHourlyPrices ==
    /\ ~Running
    /\ BeginCall("-", clock, cost_level)
    /\ UNCHANGED <<client, session, open_sessions, jar, cpc, today_prices, data, last, cycle,
                   cost_level, clock, entry>>
    /\ UNCHANGED <<presp, pquote, phour, recovered, flow>>

\* Any caller awaits api.close() on the client as it is, between two of its
\* operations.
Close ==
    /\ ~Running
    /\ session' = Closed(session)
    /\ open_sessions' = OpenAfterClose(open_sessions, session)
    /\ UNCHANGED <<client, jar, call, auth, post, res, cpc, today_prices, data, last, cycle,
                   cost_level, clock, entry>>
    /\ UNCHANGED <<presp, pquote, phour, recovered, flow>>

-----------------------------------------------------------------------------
(* NextEnergyCoordinator._async_update_data *)

\* Faulty variant of CycleFailure: the except clause misses AuthError.
CycleFailureAuthEscapes(kind) == IF kind \in {"ApiError", "ConnError"} THEN "UpdateFailed" ELSE kind

\* Lines 73-74: except NextEnergyApiError -> raise UpdateFailed; any other
\* exception leaves _async_update_data as it is.
CycleFailure(kind) == IF IsApiError(kind) THEN "UpdateFailed" ELSE kind

\* Faulty variant of TomorrowKept: an empty quote is not cleared.
TomorrowKeptWhenEmpty(quote) ==
    [tomorrow |-> quote, tomorrow_available |-> quote # None /\ quote[1].hourly_prices # <<>>]

\* Lines 56-60: the tomorrow quote is kept only if it has hourly prices.
TomorrowKept(quote) ==
    IF quote # None /\ quote[1].hourly_prices # <<>>
    THEN [tomorrow |-> quote, tomorrow_available |-> TRUE]
    ELSE [tomorrow |-> None, tomorrow_available |-> FALSE]

\* Lines 48-49 and 61-63: the tomorrow fetch raised NextEnergyApiError.
TomorrowAbsent == [tomorrow |-> None, tomorrow_available |-> FALSE]

\* Faulty variant of Snapshot: an absent tomorrow is filled from the
\* snapshot published before.
SnapshotStaleTomorrow(today, t, now) ==
    [today |-> today,
     tomorrow |-> IF t.tomorrow = None /\ data # None THEN data[1].tomorrow ELSE t.tomorrow,
     tomorrow_available |-> t.tomorrow_available,
     cost_level |-> cost_level,
     last_update |-> now,
     cycle |-> cycle]

\* Lines 65-71: the snapshot returned.  cycle is a history field: the cycle
\* that assembled the snapshot.
Snapshot(today, t, now) ==
    [today |-> today,
     tomorrow |-> t.tomorrow,
     tomorrow_available |-> t.tomorrow_available,
     cost_level |-> cost_level,
     last_update |-> now,
     cycle |-> cycle]

\* coordinator.data after a cycle that raised: the base class keeps it.
DataOnFailure == data

\* __init__.py lines 36-41: what async_setup_entry does with the outcome of
\* authenticate().
SetupAfterAuthenticate(kind) ==
    IF kind = "ok" THEN "first_refresh"
    ELSE IF kind = "AuthError" THEN "ConfigEntryAuthFailed"
    ELSE IF IsApiError(kind) THEN "ConfigEntryNotReady"
    ELSE kind

\* __init__.py lines 31-41: async_setup_entry creates the client and awaits
\* api.authenticate().
SetupEntry ==
    /\ entry = "new"
    /\ DoAuthenticateOn(NewClient, "none", 0)
    /\ entry' = SetupAfterAuthenticate(res'.kind)
    /\ UNCHANGED <<cpc, today_prices, data, last, cycle, cost_level, clock>>
    /\ UNCHANGED <<presp, pquote, phour, recovered, flow>>

\* Refresh cycles explored: MaxCycles while the upstream may fail, and one
\* more once it has recovered.
CycleBudget == IF Healthy THEN MaxCycles + 1 ELSE MaxCycles

\* The base class starts a refresh (async_config_entry_first_refresh at
\* setup, __init__.py line 45, or the update interval elapsing): line 41,
\* get_hourly_prices(date=datetime.now()).
StartCycle ==
    /\ cpc = "idle"
    /\ entry \in {"first_refresh", "loaded"}
    /\ cycle < CycleBudget
    /\ cycle' = cycle + 1
    /\ cpc' = "today"
    /\ \E now \in Now :
          /\ clock' = now
          /\ BeginCall("today", now, cost_level)
    /\ UNCHANGED <<client, session, open_sessions, jar, today_prices, data, last, cost_level,
                   entry>>
    /\ UNCHANGED <<presp, pquote, phour, recovered, flow>>

\* Faulty variant of EntryAfterRefresh: the entry is registered whatever the
\* first refresh did.
EntryAfterRefreshAlways(success) ==
    IF entry # "first_refresh" THEN entry ELSE "loaded"

\* __init__.py lines 45-50: a failed first refresh makes setup raise
\* ConfigEntryNotReady; after a successful one the entry is registered.
EntryAfterRefresh(success) ==
    IF entry # "first_refresh" THEN entry
    ELSE IF success THEN "loaded" ELSE "ConfigEntryNotReady"

\* Faulty variant of Returned: every fetch is taken to have raised.
ReturnedNever(kind) == FALSE

\* Faulty variant of Returned: a fetch that raised is taken to have returned.
ReturnedOrRaised(kind) == TRUE

\* Lines 41-44: the awaited get_hourly_prices returned instead of raising.
Returned(kind) == kind = "ok"

\* Lines 41-55 and 73-74: the today fetch has returned or raised.
TodayDone ==
    /\ cpc = "today"
    /\ call.pc = "done"
    /\ \/ /\ Returned(res.kind)
          /\ today_prices' = res.quote
          /\ cpc' = "tomorrow"
          /\ \E now \in Now :
                /\ clock' = now
                /\ BeginCall("tomorrow", now + 1, cost_level)
          /\ UNCHANGED <<data, last, entry>>
       \/ /\ ~Returned(res.kind)
          /\ cpc' = "idle"
          /\ last' = CycleFailure(res.kind)
          /\ data' = DataOnFailure
          /\ entry' = EntryAfterRefresh(FALSE)
          /\ UNCHANGED <<today_prices, clock, call, auth, post, res>>
    /\ UNCHANGED <<client, session, open_sessions, jar, cycle, cost_level>>
    /\ UNCHANGED <<presp, pquote, phour, recovered, flow>>

\* Lines 56-74: the tomorrow fetch has returned or raised.
TomorrowDone ==
    /\ cpc = "tomorrow"
    /\ call.pc = "done"
    /\ \/ /\ res.kind = "ok"
          /\ \E now \in Now :
                /\ clock' = now
                /\ data' = Some(Snapshot(today_prices, TomorrowKept(res.quote), now))
          /\ last' = "ok"
          /\ entry' = EntryAfterRefresh(TRUE)
       \/ /\ IsApiError(res.kind)
          /\ \E now \in Now :
                /\ clock' = now
                /\ data' = Some(Snapshot(today_prices, TomorrowAbsent, now))
          /\ last' = "ok"
          /\ entry' = EntryAfterRefresh(TRUE)
       \/ /\ res.kind # "ok"
          /\ ~IsApiError(res.kind)
          /\ data' = DataOnFailure
          /\ last' = CycleFailure(res.kind)
          /\ entry' = EntryAfterRefresh(FALSE)
          /\ clock' = clock
    /\ cpc' = "idle"
    /\ today_prices' = None
    /\ UNCHANGED <<client, session, open_sessions, jar, call, auth, post, res, cycle,
                   cost_level>>
    /\ UNCHANGED <<presp, pquote, phour, recovered, flow>>

\* __init__.py lines 65-71: async_unload_entry with the platforms unloaded
\* (unload_ok): the entry is popped from hass.data and the client's session is
\* closed.  With unload_ok false nothing changes.  The entry is unloaded
\* between refreshes.  The popped coordinator publishes nothing any more, and
\* no client operation belongs to the entry.
UnloadEntry ==
    /\ entry = "loaded"
    /\ cpc = "idle"
    /\ entry' = "unloaded"
    /\ session' = Closed(session)
    /\ open_sessions' = OpenAfterClose(open_sessions, session)
    /\ data' = None
    /\ call' = NoCall
    /\ auth' = NoAuth
    /\ post' = NoPost
    /\ res' = NoResult
    /\ UNCHANGED <<client, jar, cpc, today_prices, last, cycle, cost_level, clock>>
    /\ UNCHANGED <<presp, pquote, phour, recovered, flow>>

-----------------------------------------------------------------------------

\* A client just constructed, no entry set up, nothing fetched.
Fresh ==
    /\ client = NewClient
    /\ session = "none"
    /\ open_sessions = 0
    /\ jar = None
    /\ call = NoCall
    /\ auth = NoAuth
    /\ post = NoPost
    /\ res = NoResult
    /\ cpc = "idle"
    /\ today_prices = None
    /\ data = None
    /\ last = "none"
    /\ cycle = 0
    /\ cost_level = COST_LEVEL_MARKET
    /\ clock = 0
    /\ entry = "new"

Init ==
    /\ Fresh
    /\ presp = [kind |-> "ok", PricingList |-> <<>>, GasPrice |-> 0, keys |-> {}, serial |-> 0]
    /\ pquote = None
    /\ phour = None
    /\ recovered = None
    /\ flow = "none"

\* The integration: setup of the account, then refresh cycles.
Next ==
    \/ SetupEntry
    \/ StartCycle
    \/ GhpEntry
    \/ GhpPost
    \/ GhpReauth
    \/ TodayDone
    \/ TomorrowDone
    \/ UnloadEntry

Spec == Init /\ [][Next]_vars

\* The client under any sequence of calls of its public operations.
NextClient ==
    \/ Authenticate
    \/ CallGetHourlyPrices
    \/ Close
    \/ GhpEntry
    \/ GhpPost
    \/ GhpReauth

SpecClient == Init /\ [][NextClient]_vars

\* Faulty variant of FlowResult: the except clauses are in the other order,
\* and the one for the base class takes every error of the client.
FlowResultBaseFirst(kind) ==
    IF kind = "ok" THEN "create_entry"
    ELSE IF IsApiError(kind) THEN "cannot_connect"
    ELSE "unknown"

\* config_flow.py lines 58-74: what async_step_user does with the outcome of
\* authenticate().
FlowResult(kind) ==
    IF kind = "ok" THEN "create_entry"
    ELSE IF kind = "AuthError" THEN "invalid_auth"
    ELSE IF IsApiError(kind) THEN "cannot_connect"
    ELSE "unknown"

\* The results of async_step_user that show the form again.
FlowErrors == {"invalid_auth", "cannot_connect", "unknown"}

\* config_flow.py lines 47-80: async_step_user with user input for an account
\* that has no entry yet.  It creates a client of its own and awaits
\* authenticate() and then close(); an exception skips close().  On success
\* the entry is created, otherwise the form is shown again with the error.
StepUser ==
    /\ entry = "none"
    /\ AuthenticateOn(NewClient, "none")
    /\ session' = IF res'.kind = "ok" THEN Closed(GetSession("none")) ELSE GetSession("none")
    /\ open_sessions' = IF res'.kind = "ok"
                        THEN OpenAfterClose(OpenAfterGet(0, "none"), GetSession("none"))
                        ELSE OpenAfterGet(0, "none")
    /\ flow' = FlowResult(res'.kind)
    /\ entry' = IF res'.kind = "ok" THEN "new" ELSE entry
    /\ UNCHANGED <<cpc, today_prices, data, last, cycle, cost_level, clock>>
    /\ UNCHANGED <<presp, pquote, phour, recovered>>

\* Between two refresh cycles the upstream recovers: from now on it answers
\* every request successfully.
Recover ==
    /\ recovered = None
    /\ cpc = "idle"
    /\ entry \in {"first_refresh", "loaded"}
    /\ recovered' = Some([cycle |-> cycle, last |-> last])
    /\ UNCHANGED <<client, session, open_sessions, jar, call, auth, post, res, cpc, today_prices, data,
                   last, cycle, cost_level, clock, presp, pquote, phour, flow, entry>>

\* A step of an entry that is set up or being set up: the update interval
\* elapses, an awaited request is answered, a fetch hands its result on.
Refresh ==
    \/ StartCycle
    \/ GhpEntry
    \/ GhpPost
    \/ GhpReauth
    \/ TodayDone
    \/ TomorrowDone

NextRecover ==
    \/ SetupEntry
    \/ Refresh
    \/ Recover

\* The integration with an upstream that recovers at some point, the polling
\* timer firing and every awaited request being answered.
SpecRecover == Init /\ [][NextRecover]_vars /\ WF_vars(Refresh)

\* An account that is not configured yet.
InitFlow ==
    /\ client = NewClient
    /\ session = "none"
    /\ open_sessions = 0
    /\ jar = None
    /\ call = NoCall
    /\ auth = NoAuth
    /\ post = NoPost
    /\ res = NoResult
    /\ cpc = "idle"
    /\ today_prices = None
    /\ data = None
    /\ last = "none"
    /\ cycle = 0
    /\ cost_level = COST_LEVEL_MARKET
    /\ clock = 0
    /\ entry = "none"
    /\ presp = [kind |-> "ok", PricingList |-> <<>>, GasPrice |-> 0, keys |-> {}, serial |-> 0]
    /\ pquote = None
    /\ phour = None
    /\ recovered = None
    /\ flow = "none"

\* The configuration flow of an account, then the integration on the entry
\* the flow created.
NextFlow ==
    \/ StepUser
    \/ Next

SpecFlow == InitFlow /\ [][NextFlow]_vars

\* _parse_price_response applied to a response body on its own.
InitParse ==
    /\ Fresh
    /\ presp \in ParseInputs \cup {ExampleResponse}
    /\ pquote = None
    /\ phour = None
    /\ recovered = None
    /\ flow = "none"

\* response and date in, quote out: nothing of the client is read or written.
Parse ==
    /\ pquote = None
    /\ \E date \in ParseDates, hour \in ParseNowHours :
          /\ \E quote \in QuotesAt(presp, date, hour) : pquote' = Some(quote)
          /\ phour' = Some(hour)
    /\ UNCHANGED <<client, session, open_sessions, jar, call, auth, post, res, cpc, today_prices, data,
                   last, cycle, cost_level, clock, presp, recovered, flow, entry>>

NextParse == Parse

SpecParse == InitParse /\ [][NextParse]_vars

-----------------------------------------------------------------------------
(* Properties *)

\* The last event of the current client operation is the authenticate() run
\* recorded in auth: nothing has touched the client since it ended.
AuthIsLatest == auth.at > 0 /\ auth.at = call.n_auth + call.n_post

\* C1: one call of get_hourly_prices re-authenticates at most once and posts
\* at most two price requests; when the retried request is answered
\* "Invalid Login" too, the call ends with ApiError and does not
\* re-authenticate again.
C1_BoundedRetry ==
    call.op = "get_hourly_prices" =>
        /\ call.n_reauth <= 1
        /\ call.n_post <= 2
        /\ (call.n_post = 2 /\ post.resp = "invalid_login" =>
                call.pc = "done" /\ res.kind = "ApiError")

\* C2: in a refresh cycle after the first, nothing done up to the end of the
\* today fetch changes the published snapshot, and a today fetch that raised
\* AuthError or another ApiError ends the cycle with UpdateFailed.
C2_FailedTodayKeepsSnapshot ==
    [][ cycle' > 1 =>
          /\ (cpc = "today" \/ cpc' = "today") => data' = data
          /\ (cpc = "today" /\ cpc' = "idle" /\ IsApiError(res.kind)) =>
                last' = "UpdateFailed" ]_vars

\* C2 witness: the second cycle ended with UpdateFailed and the snapshot of
\* the first cycle is still the published one.
C2_Witness ==
    /\ cpc = "idle"
    /\ cycle = 2
    /\ call.phase = "today"
    /\ res.kind = "AuthError"
    /\ last = "UpdateFailed"
    /\ data # None
    /\ data[1].cycle = 1

\* C3: once the today fetch has succeeded, a tomorrow fetch that fails in any
\* way leaves the cycle successful: the cycle publishes a snapshot with the
\* today quote it fetched, tomorrow absent and tomorrow_available false.
C3_TomorrowFailureTolerated ==
    (cpc = "idle" /\ call.phase = "tomorrow" /\ res.kind # "ok") =>
        /\ last = "ok"
        /\ data # None
        /\ data[1].cycle = cycle
        /\ data[1].today # None
        /\ data[1].today[1].fetched = cycle
        /\ data[1].tomorrow = None
        /\ ~data[1].tomorrow_available

\* C4: in every published snapshot tomorrow_available is true exactly when
\* tomorrow is present, and a tomorrow that is present has hourly prices; a
\* tomorrow fetch that returned a quote without hourly prices is published as
\* tomorrow absent.
C4_TomorrowAvailability ==
    /\ data # None =>
          /\ data[1].tomorrow_available <=> data[1].tomorrow # None
          /\ data[1].tomorrow # None => data[1].tomorrow[1].hourly_prices # <<>>
    /\ (cpc = "idle" /\ call.phase = "tomorrow" /\ res.kind = "ok"
            /\ res.quote[1].hourly_prices = <<>>) =>
          /\ data # None
          /\ data[1].cycle = cycle
          /\ data[1].tomorrow = None
          /\ ~data[1].tomorrow_available

\* C4 witness: a cycle whose tomorrow fetch returned an empty PricingList has
\* published its snapshot.
C4_Witness ==
    /\ cpc = "idle"
    /\ call.phase = "tomorrow"
    /\ res.kind = "ok"
    /\ res.quote[1].hourly_prices = <<>>
    /\ data # None
    /\ data[1].cycle = cycle
    /\ data[1].today[1].hourly_prices # <<>>

\* C5: the published snapshot is absent exactly until the first refresh has
\* succeeded; otherwise it is the complete result of one finished cycle:
\* today is present, and today, tomorrow, the cost level and the assembly all
\* come from that cycle, also while a later cycle is between its two fetches.
C5_SnapshotWhole ==
    /\ data = None <=> entry # "loaded"
    /\ data # None =>
          /\ data[1].today # None
          /\ data[1].today[1].fetched = data[1].cycle
          /\ data[1].tomorrow # None => data[1].tomorrow[1].fetched = data[1].cycle
          /\ data[1].cost_level = cost_level
          /\ data[1].last_update <= clock
          /\ data[1].cycle <= cycle
          /\ data[1].cycle = cycle => cpc = "idle"

\* C5 witness: the second cycle is between its today fetch and its tomorrow
\* fetch, and the snapshot of the first cycle, with its tomorrow quote, is
\* what consumers read.
C5_Witness ==
    /\ cpc = "tomorrow"
    /\ cycle = 2
    /\ today_prices # None
    /\ call.pc = "reauth"
    /\ data # None
    /\ data[1].cycle = 1
    /\ data[1].tomorrow # None

\* C7: every price request is posted with a session token held; a call that
\* found no token authenticated first and posted nothing when that failed;
\* a call that found a token posted without authenticating first.
C7_NoPostWithoutToken ==
    call.op = "get_hourly_prices" =>
        /\ post.at > 0 => post.token_held
        /\ (call.held_on_entry /\ call.n_post >= 1) => call.n_auth = call.n_reauth
        /\ (~call.held_on_entry /\ call.n_post >= 1) => call.n_auth = call.n_reauth + 1
        /\ (auth.via = "entry" /\ auth.outcome # "ok") =>
              /\ call.pc = "done"
              /\ call.n_post = 0
              /\ res.kind = auth.outcome

\* C7 witness: a call that found no token has authenticated and then posted
\* its price request.
C7_Witness ==
    /\ call.op = "get_hourly_prices"
    /\ ~call.held_on_entry
    /\ auth.via = "entry"
    /\ auth.outcome = "ok"
    /\ post.at = 2
    /\ post.token_held

\* C8: after authenticate() has succeeded on a client that held a session
\* token and a CSRF token (directly or on the Invalid-Login retry path), both
\* stored tokens are the values of the session cookie now in the jar, and
\* every price request sent afterwards carries that cookie's CSRF value.
C8_TokensReplaced ==
    (auth.outcome = "ok" /\ auth.held_csrf /\ (auth.held_session \/ auth.via = "retry")) =>
        /\ jar # None
        /\ AuthIsLatest =>
              /\ client.session_cookie = jar
              /\ client.csrf_token = CsrfSearch(jar[1])
        /\ post.at > auth.at =>
              post.csrf_header = (IF CsrfSearch(jar[1]) = None THEN 0 ELSE CsrfSearch(jar[1])[1])

\* C9: whatever the client held before, an authenticate() whose login request
\* succeeded while the jar holds no session cookie raises AuthError.
C9_NoCookieIsAuthError ==
    (auth.login_ok /\ jar = None) => auth.outcome = "AuthError"

\* C10: a transport failure during authenticate() or get_hourly_prices
\* surfaces as the connection-error kind, never as AuthError and never as the
\* transport exception itself; AuthError has one of its three causes.
C10_TransportIsConnError ==
    /\ auth.cause = "transport" => auth.outcome = "ConnError"
    /\ post.resp \in TransportFailures => res.kind = "ConnError"
    /\ res.kind \notin TransportFailures
    /\ auth.outcome = "AuthError" =>
          auth.cause \in {"login_page", "login_rejected", "no_session_cookie"}

\* C11: a price answer with a status other than 200, or with an exception whose
\* message lacks "Invalid Login", ends get_hourly_prices with ApiError in the
\* same step: no authenticate() runs, it is the call's last request, and the
\* session token, the CSRF token and the version tokens stay as they were.
C11_RejectedLeavesClient ==
    [][ (call.pc = "post" /\ post'.resp \in {"status", "exception"}) =>
            /\ res' = [kind |-> "ApiError", quote |-> None]
            /\ call' = [call EXCEPT !.pc = "done", !.n_post = @ + 1]
            /\ auth' = auth
            /\ client' = client ]_vars

\* C11 happens: a call on a client holding both tokens and a captured module
\* version was answered with an exception and ended with ApiError.
C11_Witness ==
    /\ call.op = "get_hourly_prices" /\ call.pc = "done"
    /\ post.resp = "exception" /\ res.kind = "ApiError"
    /\ Truthy(client.session_cookie) /\ client.csrf_token # None
    /\ client.module_version # DEFAULT_MODULE_VERSION

\* Outcomes of async_setup_entry other than registration.
SetupFailed == entry \notin {"none", "new", "first_refresh", "loaded", "unloaded"}

\* C12: the entry becomes registered only in the step that ends the first
\* refresh successfully, a registered coordinator always has a snapshot, and a
\* setup whose authentication or first cycle failed stays failed with nothing
\* registered and nothing published.
C12_RegisteredAfterFirstRefresh ==
    /\ [](entry = "loaded" => data # None /\ cycle >= 1)
    /\ [](SetupFailed => data = None /\ cycle <= 1)
    /\ [][ ((entry # "loaded" /\ entry' = "loaded") =>
                (entry = "first_refresh" /\ cpc = "tomorrow" /\ cpc' = "idle"
                 /\ last' = "ok" /\ data' # None))
            /\ (SetupFailed => entry' = entry) ]_vars

\* C12 happens: the first cycle of a setup failed, so setup failed.
C12_Witness ==
    entry = "ConfigEntryNotReady" /\ cycle = 1 /\ last = "UpdateFailed" /\ cpc = "idle"

C14_TokenOnlyFromAuthenticate ==
    /\ [](call.pc = "reauth" => client.session_cookie = None)
    /\ [][ ((~Truthy(client.session_cookie) /\ Truthy(client'.session_cookie)) =>
                (/\ auth'.outcome = "ok"
                 /\ call'.op = "authenticate" \/ call'.n_auth = call.n_auth + 1))
            /\ ((call.pc = "post" /\ post'.resp = "invalid_login") =>
                (client'.session_cookie = None /\ call'.pc = "reauth" /\ auth' = auth)) ]_vars

\* C14 happens: the token held on entry was cleared on "Invalid Login", the
\* re-authentication failed, and the client holds no token.
C14_Witness ==
    /\ call.pc = "done" /\ call.held_on_entry /\ post.resp = "invalid_login"
    /\ auth.via = "retry" /\ auth.outcome = "AuthError"
    /\ ~Truthy(client.session_cookie)

\* The three version tokens of a client.
VersionTokens(c) == <<c.module_version, c.api_version_prices, c.api_version_costs>>

\* C15: the module version and the two API versions change only in a step in
\* which authenticate() runs, and every price request carries the module
\* version and the prices API version the client holds when it is sent.
C15_VersionsFrame ==
    [][ /\ VersionTokens(client') # VersionTokens(client) =>
              (call'.op = "authenticate" \/ call'.n_auth = call.n_auth + 1)
        /\ (call.pc = "post" /\ call'.n_post = call.n_post + 1) =>
              /\ post'.module_version = client.module_version
              /\ post'.api_version = client.api_version_prices
              /\ VersionTokens(client') = VersionTokens(client) ]_vars

\* C15 happens: a call that ran no authenticate() sent the module version
\* captured by an earlier authentication.
C15_Witness ==
    /\ call.op = "get_hourly_prices" /\ call.pc = "done" /\ call.n_auth = 0
    /\ post.resp = "ok" /\ post.module_version # DEFAULT_MODULE_VERSION
    /\ post.module_version = client.module_version

Abs(x) == IF x < 0 THEN -x ELSE x

\* a is the quotient num / den rounded to a whole unit of 0.0001.
IsRounded(a, num, den) == 2 * Abs(a * den - num) <= den

\* C16: a quote parsed from a PricingList with at least one item has every
\* hour of the list populated, min_price <= every hourly price <= max_price,
\* both attained at a populated hour, and average_price the mean of the
\* populated hours' prices rounded to 4 decimals.
C16_MinMaxAverage ==
    (pquote # None /\ presp.PricingList # <<>>) =>
        LET q == pquote[1]
            hp == q.hourly_prices
            n == Len(hp)
        IN  /\ { hp[i].hour : i \in 1..n }
                  = { presp.PricingList[k].Hour : k \in 1..Len(presp.PricingList) }
            /\ \A i \in 1..n : q.min_price <= hp[i].price /\ hp[i].price <= q.max_price
            /\ \E i \in 1..n : hp[i].price = q.min_price
            /\ \E i \in 1..n : hp[i].price = q.max_price
            /\ IsRounded(q.average_price, Sum([i \in 1..n |-> hp[i].price]), n)

\* C16 happens: a quote with three populated hours, a negative minimum below
\* the maximum, and a mean that is not a whole number of units.
C16_Witness ==
    /\ pquote # None
    /\ Len(pquote[1].hourly_prices) = 3
    /\ pquote[1].min_price < 0 /\ pquote[1].max_price > 0
    /\ Sum(AllPrices(pquote[1].hourly_prices)) % 3 # 0

\* The price the response gives hour h, in quote units: that of the last item
\* of the PricingList with this hour, rounded to 4 decimals; v is that price
\* or, for an hour the response lacks, 0.
IsPriceOfHour(v, h) ==
    LET pl == presp.PricingList
        at == { k \in 1..Len(pl) : pl[k].Hour = h }
    IN  IF at = {} THEN v = 0
        ELSE IsRounded(v, pl[CHOOSE k \in at : \A j \in at : j <= k].Price, PriceScale)

\* C17: average_off_peak is the sum of the prices of hours 0 to 5, a missing
\* hour counting 0, divided by 6 and rounded to the 4 decimals of every
\* numeric field of a quote, whatever the number of populated hours and
\* whatever the other hours hold.
C17_OffPeakOverSix ==
    pquote # None =>
        LET q == pquote[1]
            V(h) == DictGet(q.hourly_prices, h)
        IN  /\ \A h \in 0..5 : IsPriceOfHour(V(h), h)
            /\ IsRounded(q.average_off_peak, V(0) + V(1) + V(2) + V(3) + V(4) + V(5), 6)

\* C17 happens: two of the hours 0 to 5 and one hour outside them are
\* populated, and the off-peak average is not zero.
C17_Witness ==
    /\ pquote # None
    /\ { pquote[1].hourly_prices[i].hour : i \in 1..Len(pquote[1].hourly_prices) } = {0, 5, 6}
    /\ DictGet(pquote[1].hourly_prices, 6) # 0
    /\ pquote[1].average_off_peak # 0

\* C18: the tomorrow fetch of a cycle is started only by the step that takes
\* the quote the today fetch returned; a today fetch that raised ends the
\* cycle in a step that starts no call; and both fetches, with every price
\* request they post, carry the coordinator's cost level.
C18_TodayBeforeTomorrow ==
    /\ [](call.phase \in {"today", "tomorrow"} =>
              /\ call.cost_level = cost_level
              /\ post.at > 0 => post.cost_level = cost_level
              /\ call.phase = "tomorrow" => (cpc = "tomorrow" \/ call.pc = "done"))
    /\ [][ ((cpc # "tomorrow" /\ cpc' = "tomorrow") =>
                (/\ cpc = "today" /\ call.phase = "today" /\ call.pc = "done"
                 /\ res.kind = "ok" /\ post.resp = "ok"
                 /\ today_prices' = res.quote /\ res.quote # None
                 /\ call'.phase = "tomorrow" /\ call'.pc = "entry" /\ cycle' = cycle))
            /\ ((cpc = "today" /\ call.pc = "done" /\ res.kind # "ok") =>
                (cpc' = "idle" /\ call' = call /\ post' = post /\ cycle' = cycle)) ]_vars

\* C18 happens: the today fetch of the second cycle raised ApiError and the
\* cycle ended there.
C18_Witness ==
    /\ cpc = "idle" /\ cycle = 2 /\ last = "UpdateFailed"
    /\ call.phase = "today" /\ res.kind = "ApiError" /\ post.cost_level = cost_level

\* C19: after authenticate() has succeeded with a session cookie whose value
\* has no crf= field, the client holds no CSRF token, whatever it held before,
\* and every price request sent afterwards carries the empty CSRF header.
C19_NoCrfLeavesCsrfUnset ==
    (auth.outcome = "ok" /\ jar # None /\ CsrfSearch(jar[1]) = None) =>
        /\ AuthIsLatest => client.csrf_token = None
        /\ post.at > auth.at => post.csrf_header = 0

\* C20: after an authenticate() run whose version-info request did not
\* succeed, the login request it sent (if any), the client, and every price
\* request sent afterwards carry the compiled-in module version, also when
\* the client held a version captured by an earlier authentication.
C20_DefaultVersionWithoutVersionInfo ==
    auth.ver = "failed" =>
        /\ auth.login_version # None => auth.login_version = Some(DEFAULT_MODULE_VERSION)
        /\ AuthIsLatest => client.module_version = DEFAULT_MODULE_VERSION
        /\ post.at > auth.at => post.module_version = DEFAULT_MODULE_VERSION

\* C21: in every published snapshot with tomorrow present, the date of the
\* tomorrow quote is the day after the date of the today quote, also when the
\* wall clock passes midnight between the two fetches of the cycle.
C21_TomorrowIsDayAfterToday ==
    (data # None /\ data[1].tomorrow # None) =>
        data[1].tomorrow[1].date = data[1].today[1].date + 1

\* Index of the first item of the PricingList pl that names hour h.
FirstIn(pl, h) ==
    CHOOSE k \in 1..Len(pl) : pl[k].Hour = h /\ \A j \in 1..(k - 1) : pl[j].Hour # h

\* C22: min_price_hour (max_price_hour) is a populated hour at the minimum
\* (maximum) price, and among the hours at that price it is the one the
\* PricingList names first, whatever the numeric order of the hours; the
\* response listing hour 0 at 0.2 and then hour 1 at 0.15 gives min_price 0.15
\* at hour 1 and max_price 0.2 at hour 0.
C22_FirstHourInResponseOrder ==
    (pquote # None /\ presp.PricingList # <<>>) =>
        LET q == pquote[1]
            pl == presp.PricingList
            Hours == { pl[k].Hour : k \in 1..Len(pl) }
            At(price) == { h \in Hours : DictGet(q.hourly_prices, h) = price }
            IsFirstAt(hour, price) ==
                /\ hour \in At(price)
                /\ \A h \in At(price) : FirstIn(pl, hour) <= FirstIn(pl, h)
        IN  /\ IsFirstAt(q.min_price_hour, q.min_price)
            /\ IsFirstAt(q.max_price_hour, q.max_price)
            /\ presp = ExampleResponse =>
                  /\ q.min_price = 1500 /\ q.min_price_hour = 1
                  /\ q.max_price = 2000 /\ q.max_price_hour = 0

\* C22 happens: two hours are at the minimum price and min_price_hour is the
\* numerically larger one, named first by the response.
C22_Witness ==
    /\ pquote # None
    /\ \E i \in 1..Len(pquote[1].hourly_prices) :
          /\ pquote[1].hourly_prices[i].price = pquote[1].min_price
          /\ pquote[1].hourly_prices[i].hour < pquote[1].min_price_hour
    /\ pquote[1].min_price < pquote[1].max_price

\* The response in presp has no PricingList key or an empty PricingList.
NoPricingList == "PricingList" \notin presp.keys \/ presp.PricingList = <<>>

\* C23: a response with an empty or missing PricingList is parsed without
\* failure, and its quote has empty hourly_prices and average_price,
\* min_price, max_price, average_off_peak, current_price, min_price_hour and
\* max_price_hour all 0.
C23_EmptyListGivesZeros ==
    NoPricingList =>
        /\ pquote = None => ENABLED Parse
        /\ pquote # None =>
              /\ pquote[1].hourly_prices = <<>>
              /\ pquote[1].average_price = 0
              /\ pquote[1].min_price = 0
              /\ pquote[1].max_price = 0
              /\ pquote[1].average_off_peak = 0
              /\ pquote[1].current_price = 0
              /\ pquote[1].min_price_hour = 0
              /\ pquote[1].max_price_hour = 0

\* C23 happens: a response without the PricingList key, carrying a gas price,
\* has been parsed.
C23_Witness ==
    /\ pquote # None
    /\ presp.keys = {"GasPrice"}
    /\ pquote[1].gas_price # 0
    /\ pquote[1].hourly_prices = <<>>

\* C24: current_hour of a quote is the hour the wall clock gave when the
\* response was parsed, and current_price is the price the response gives
\* that hour, rounded to 4 decimals, or 0 when the response does not name the
\* hour: both are fixed by the response and the wall-clock hour, for every
\* requested date.
C24_CurrentHourIsWallClock ==
    pquote # None =>
        /\ phour # None
        /\ pquote[1].current_hour = phour[1]
        /\ pquote[1].current_price = DictGet(pquote[1].hourly_prices, phour[1])
        /\ IsPriceOfHour(pquote[1].current_price, phour[1])

\* C24 happens: the quote requested for the day after the wall clock's day
\* reports the hour of the wall clock and a price for it.
C24_Witness ==
    /\ pquote # None
    /\ pquote[1].date = clock + 1
    /\ pquote[1].current_hour = 1
    /\ pquote[1].current_price # 0

\* The re-authentication of the current call has failed.
ReauthFailed == auth.via = "retry" /\ auth.outcome # "ok"

\* C25: a re-authentication that fails ends get_hourly_prices in the same
\* step with the error authenticate() raised, no price request follows the
\* one answered "Invalid Login", and the client holds no session token; the
\* next call of get_hourly_prices finds no token and runs authenticate()
\* before anything else.
C25_FailedReauthLeavesNoToken ==
    /\ [](ReauthFailed =>
              /\ call.pc = "done" /\ res.kind = auth.outcome
              /\ post.resp = "invalid_login" /\ post.at < auth.at
              /\ ~Truthy(client.session_cookie))
    /\ [][ ((call.pc = "reauth" /\ auth'.outcome # "ok") =>
                (call'.pc = "done" /\ post' = post /\ call'.n_post = call.n_post))
            /\ ((ReauthFailed /\ call'.pc = "entry") =>
                (~call'.held_on_entry /\ call'.n_auth = 0 /\ call'.n_post = 0))
            /\ ((call.pc = "entry" /\ call.depth = 0 /\ ~call.held_on_entry) =>
                (auth'.via = "entry" /\ call'.n_auth = 1 /\ call'.n_post = 0)) ]_vars

\* C25 happens: the tomorrow fetch of the first cycle lost the session and
\* its re-authentication failed, and the today fetch of the second cycle has
\* authenticated first.
C25_Witness ==
    /\ cycle = 2 /\ call.phase = "today" /\ call.pc = "post"
    /\ ~call.held_on_entry
    /\ auth.via = "entry" /\ auth.outcome = "ok" /\ call.n_post = 0

\* C26: once the upstream answers every request successfully, whatever
\* failed before, a refresh cycle started afterwards ends successfully and
\* its snapshot is published.
C26_Recovery ==
    Healthy ~>
        (/\ Healthy /\ cpc = "idle" /\ last = "ok" /\ entry = "loaded"
         /\ data # None /\ data[1].cycle > recovered[1].cycle /\ data[1].cycle = cycle)

\* C26 happens: the second cycle failed, the upstream recovered, and the
\* third cycle has published its snapshot.
C26_Witness ==
    /\ Healthy /\ recovered[1].cycle = 2 /\ recovered[1].last = "UpdateFailed"
    /\ cpc = "idle" /\ last = "ok" /\ data # None /\ data[1].cycle = 3

\* C27: once setup has failed, in authenticate() or in the first refresh, or
\* the credential check of the configuration flow has failed, the client that
\* was created for it and is dropped has no open session.
C27_NoOpenSessionAfterFailure ==
    (SetupFailed \/ (entry = "none" /\ flow \in FlowErrors)) => session # "open"

\* The last thing done on the account is the authenticate() of the
\* configuration flow, or that of setup.
FlowChecked == flow # "none" /\ entry \in {"none", "new"}

SetupAuthenticated == entry \notin {"none", "new"} /\ call.op = "authenticate"

\* C29: the configuration flow answers AuthError with "invalid_auth" and any
\* other ApiError with "cannot_connect", and creates the entry exactly when
\* authenticate() succeeded; setup answers AuthError with
\* ConfigEntryAuthFailed and any other ApiError with ConfigEntryNotReady, and
\* goes on exactly when authenticate() succeeded; a transport failure is
\* reported as bad credentials by neither.
C29_FailureKindsKeptApart ==
    /\ FlowChecked =>
          /\ auth.outcome = "AuthError" <=> flow = "invalid_auth"
          /\ auth.outcome \in ApiErrorKinds \ {"AuthError"} <=> flow = "cannot_connect"
          /\ auth.outcome = "ok" <=> flow = "create_entry"
          /\ flow = "create_entry" <=> entry = "new"
          /\ auth.cause = "transport" => flow # "invalid_auth"
    /\ SetupAuthenticated =>
          /\ auth.outcome = "AuthError" <=> entry = "ConfigEntryAuthFailed"
          /\ auth.outcome \in ApiErrorKinds \ {"AuthError"} <=> entry = "ConfigEntryNotReady"
          /\ auth.outcome = "ok" <=> entry = "first_refresh"
          /\ auth.cause = "transport" => entry # "ConfigEntryAuthFailed"
          /\ entry # "first_refresh" => data = None /\ cycle = 0
    /\ entry = "none" => data = None /\ cycle = 0

\* C29 happens: the flow created the entry, and the setup that followed
\* could not reach the server.
C29_Witness ==
    /\ flow = "create_entry"
    /\ entry = "ConfigEntryNotReady" /\ call.op = "authenticate"
    /\ auth.outcome = "ConnError" /\ auth.cause = "transport"

\* C28: under any sequence of authenticate(), get_hourly_prices() and close()
\* calls the client has at most one open session among those it created, the
\* one in _session; a step creates a session only when _session is None or
\* closed, and otherwise goes on with the open one.
C28_OneOpenSession ==
    /\ [](open_sessions <= 1 /\ (open_sessions = 1 <=> session = "open"))
    /\ [][ (open_sessions' > open_sessions => session \in {"none", "closed"})
            /\ (session = "open" => open_sessions' <= open_sessions) ]_vars

\* C28 happens: the session was closed after an authentication, and the
\* price request of the next call went out on a session created for it.
C28_Witness ==
    /\ call.op = "get_hourly_prices" /\ call.held_on_entry /\ call.n_auth = 0
    /\ post.at = 1 /\ session = "open" /\ open_sessions = 1
    /\ jar = None

=============================================================================
